---- MODULE Spec2Model ----
(***************************************************************************)
(* LaundryLED firmware: the custom HID class (src/src/hidcust.rs) and the  *)
(* control loop of main (src/src/main.rs) that turns 4-byte command        *)
(* reports into duty-cycle updates of three PWM channels.                  *)
(*                                                                         *)
(* The USB transport (usbd_human_interface_device::Interface over the      *)
(* usb_device bus) and the PWM hardware are collaborators of the code: the *)
(* model keeps of them only what the code consumes, a single inbound       *)
(* report slot read into the caller's buffer and a per-channel duty.       *)
(***************************************************************************)
EXTENDS Integers, Sequences, FiniteSets, TLC

VARIABLES
    duty,      \* current duty (percent) of the PWM channels led_ir, led_wh, led_uv
    slot,      \* the transport's inbound (host -> device) report slot
    pc,        \* position of main's loop: "read", "poll" or "halted" (panic)
    command,   \* main's local `command` of the current iteration
    result,    \* what read_report returned in the current iteration
    calls,     \* calls made by the current iteration, in order
    fails,     \* consecutive reads before this one that were not Ok (saturating)
    arrived,   \* burst runs: the reports that arrived since the last read that
               \* took one (pending), and those the current read found (taken)
    codec,     \* codec run: a record, its packed bytes and the record unpacked
    hid,       \* wrapper run: the outbound report slot and the last call made on
               \* the CustomHid, with what it was given and what it returned
    twin,      \* twin run: a second loop fed the same reports but for byte 3
    clamp      \* clamp run: a byte, and what the loop makes of it

vars == <<duty, slot, pc, command, result, calls, fails, arrived, codec, hid, twin, clamp>>

\* the variables of the wrapper, twin and clamp runs
aside == <<hid, twin, clamp>>

-----------------------------------------------------------------------------
(* Bounds of the model *)

\* longest report (in bytes) the host sends
MaxLen == 5
\* cap of the counter of consecutive failed or empty reads
MaxFails == 2
\* most reports that arrive between two reads in a burst run
MaxBurst == 2

(* Program constants *)

\* let mut buf = [0u8; 4]
REPORT_LEN == 4
\* min(command.xx, 100)
MAX_PERCENT == 100
\* led_ir.set_duty_cycle_percent(50)
IR_START == 50
\* led_wh.set_duty_cycle_percent(25)
WH_START == 25
\* led_uv.set_duty_cycle_percent(75)
UV_START == 75

Byte == 0..255

-----------------------------------------------------------------------------
(* Inputs: what the host may put on the wire *)

\* duty bytes the host sends: both sides of the 100/101 boundary
DutyBytes == {0, 100, 101}
\* values the host sends in the reserved byte
ReservedBytes == {0, 255}
\* the two command scenarios of the specification
NominalBytes == <<50, 75, 25, 0>>
SaturatingBytes == <<255, 0, 200, 0>>

WellFormed ==
    {<<a, b, c, r>> : a \in DutyBytes, b \in DutyBytes, c \in DutyBytes, r \in ReservedBytes}
        \cup {NominalBytes, SaturatingBytes}

\* the reports the host also sends cut short or made longer
Resizable == {NominalBytes, SaturatingBytes, <<100, 101, 0, 255>>}

\* the first n bytes of a report, followed by 0xAA bytes when n is more than
\* its length
Resize(r, n) == [i \in 1..n |-> IF i <= Len(r) THEN r[i] ELSE 170]

\* every report the host sends: the well-formed ones, and reports of every
\* length in 0..MaxLen
Reports == WellFormed \cup {Resize(r, n) : r \in Resizable, n \in 0..MaxLen}

\* the reports of a burst run
BurstReports == {NominalBytes, SaturatingBytes, Resize(NominalBytes, 3), Resize(SaturatingBytes, 5)}

\* the reports of a run checked for progress
FairReports == BurstReports \cup {<<>>, <<0, 100, 101, 255>>}

\* the status words of a wrapper run: 0, 0x01020304, 0x7FFFFFFF
StatusData == {0, 16909060, 2147483647}

\* the records a caller hands to read_report in a wrapper run
CallerRecords == {[wh |-> 0, ir |-> 0, uv |-> 0, reserved |-> 0],
                  [wh |-> 9, ir |-> 8, uv |-> 7, reserved |-> 6]}

\* the values of byte 3 at the second loop of a twin run
TwinReserved == {0, 1, 100, 255}

\* the bytes a codec run draws its record from
CodecBytes == {0, 1, 100, 101, 255}

-----------------------------------------------------------------------------
(* Binary codec: #[derive(PackedStruct)] on CustomHidCommand *)

CustomHidCommand(wh, ir, uv, reserved) ==
    [wh |-> wh, ir |-> ir, uv |-> uv, reserved |-> reserved]

\* CustomHidCommand::default()
DefaultCommand == CustomHidCommand(0, 0, 0, 0)

\* the infrared byte laid out first
pack_swapped(c) == <<c.ir % 256, c.wh % 256, c.uv % 256, c.reserved % 256>>

\* pack: the four u8 fields in declaration order, one byte each
pack(c) == <<c.wh % 256, c.ir % 256, c.uv % 256, c.reserved % 256>>

\* the first two fields taken in the other order
unpack_swapped(b) == [ok |-> TRUE, cmd |-> CustomHidCommand(b[2], b[1], b[3], b[4])]

\* unpack of a [u8; 4]: every field is a whole byte, so no bit pattern is refused
unpack(b) == [ok |-> TRUE, cmd |-> CustomHidCommand(b[1], b[2], b[3], b[4])]

-----------------------------------------------------------------------------
(* The transport as the wrapper consumes it *)

EmptySlot == [full |-> FALSE, data |-> <<>>]
FullSlot(r) == [full |-> TRUE, data |-> r]

\* faults of the transport that do not depend on the report (usb_device::UsbError)
TransportFaults == {"InvalidEndpoint"}

\* self.interface.read_report(&mut buf): one packet of the slot copied to the
\* front of buf and its length returned; WouldBlock with nothing to read,
\* BufferOverflow when the packet does not fit (then the packet is kept or
\* dropped, `keep`), any other fault as it comes
InterfaceReadReport(s, buf, fault, keep) ==
    IF fault # "None"
    THEN [err |-> fault, n |-> 0, buf |-> buf, slot |-> s]
    ELSE IF ~s.full
    THEN [err |-> "WouldBlock", n |-> 0, buf |-> buf, slot |-> s]
    ELSE IF Len(s.data) > Len(buf)
    THEN [err |-> "BufferOverflow", n |-> 0, buf |-> buf,
          slot |-> IF keep THEN s ELSE EmptySlot]
    ELSE [err |-> "None", n |-> Len(s.data),
          buf |-> [i \in 1..Len(buf) |-> IF i <= Len(s.data) THEN s.data[i] ELSE buf[i]],
          slot |-> EmptySlot]

-----------------------------------------------------------------------------
(* UsbHidError and CustomHid::read_report *)

OkResult == [tag |-> "Ok", inner |-> "-"]
WouldBlock == [tag |-> "WouldBlock", inner |-> "-"]
SerializationError == [tag |-> "SerializationError", inner |-> "-"]
UsbError(e) == [tag |-> "UsbError", inner |-> e]

\* UsbHidError::from(UsbError)
UsbHidErrorFrom(e) == IF e = "WouldBlock" THEN WouldBlock ELSE UsbError(e)

\* let mut buf = [0u8; 4]
ZeroBuf == [i \in 1..REPORT_LEN |-> 0]

\* the transport's result not looked at: the buffer is unpacked whatever it was
read_report_unchecked(cmd, s, fault, keep) ==
    LET rd == InterfaceReadReport(s, ZeroBuf, fault, keep)
    IN  [res |-> OkResult, command |-> unpack(rd.buf).cmd, slot |-> rd.slot]

\* the transport's WouldBlock taken for a report: the zeroed buffer is unpacked
read_report_empty_ok(cmd, s, fault, keep) ==
    LET rd == InterfaceReadReport(s, ZeroBuf, fault, keep)
        u == unpack(rd.buf)
    IN  IF rd.err \notin {"None", "WouldBlock"}
        THEN [res |-> UsbHidErrorFrom(rd.err), command |-> cmd, slot |-> rd.slot]
        ELSE [res |-> OkResult, command |-> u.cmd, slot |-> rd.slot]

\* *command written from the buffer before the transport's result is looked at
read_report_writes_early(cmd, s, fault, keep) ==
    LET rd == InterfaceReadReport(s, ZeroBuf, fault, keep)
        u == unpack(rd.buf)
    IN  IF rd.err # "None"
        THEN [res |-> UsbHidErrorFrom(rd.err), command |-> u.cmd, slot |-> rd.slot]
        ELSE [res |-> OkResult, command |-> u.cmd, slot |-> rd.slot]

\* read_report(&mut self, command): the transport's count of bytes is dropped
\* by `?`, the whole buffer is unpacked, *command is written on success only
read_report(cmd, s, fault, keep) ==
    LET rd == InterfaceReadReport(s, ZeroBuf, fault, keep)
        u == unpack(rd.buf)
    IN  IF rd.err # "None"
        THEN [res |-> UsbHidErrorFrom(rd.err), command |-> cmd, slot |-> rd.slot]
        ELSE IF ~u.ok
        THEN [res |-> SerializationError, command |-> cmd, slot |-> rd.slot]
        ELSE [res |-> OkResult, command |-> u.cmd, slot |-> rd.slot]

-----------------------------------------------------------------------------
(* CustomHidReport, CustomHid::write_report and the DeviceClass hooks *)

\* pack of CustomHidReport: the u32 as four bytes, least significant first;
\* a whole u32 is never refused
pack_report(d) ==
    [ok |-> TRUE,
     bytes |-> <<d % 256, (d \div 256) % 256, (d \div 65536) % 256, (d \div 16777216) % 256>>]

\* self.interface.write_report(&data): the bytes put in the outbound slot and
\* their count returned; WouldBlock while the host has not taken the last
\* report, any other fault as it comes
InterfaceWriteReport(out, data, fault) ==
    IF fault # "None"
    THEN [err |-> fault, n |-> 0, out |-> out]
    ELSE IF out.full
    THEN [err |-> "WouldBlock", n |-> 0, out |-> out]
    ELSE [err |-> "None", n |-> Len(data), out |-> FullSlot(data)]

\* the transport's result thrown away
write_report_swallow(d, out, fault) ==
    LET w == InterfaceWriteReport(out, pack_report(d).bytes, fault)
    IN  [res |-> OkResult, out |-> w.out, attempts |-> 1]

\* write_report(&mut self, report): pack, `?` on its error, then one write of
\* the transport, whose count is dropped and whose error is converted
write_report(d, out, fault) ==
    LET p == pack_report(d)
        w == InterfaceWriteReport(out, p.bytes, fault)
    IN  IF ~p.ok
        THEN [res |-> SerializationError, out |-> out, attempts |-> 0]
        ELSE [res |-> IF w.err = "None" THEN OkResult ELSE UsbHidErrorFrom(w.err),
              out |-> w.out, attempts |-> 1]

\* what a CustomHid holds: its interface, seen as the two report slots
Adapter(in, out) == [in |-> in, out |-> out]

\* a reset that empties the report slots
reset_flushes(h) == Adapter(EmptySlot, EmptySlot)

\* fn reset(&mut self) {}
reset(h) == h

\* fn tick(&mut self) -> Result<(), UsbHidError> { Ok(()) }
tick(h) == [res |-> OkResult, hid |-> h]

-----------------------------------------------------------------------------
(* The PWM channels and the control loop of main *)

Channels == {"ir", "wh", "uv"}

\* the duties main sets before the loop
StartDuty == [ir |-> IR_START, wh |-> WH_START, uv |-> UV_START]

Ev(op, ch, val) == [op |-> op, ch |-> ch, val |-> val]

\* core::cmp::min
min(a, b) == IF a < b THEN a ELSE b

\* the byte passed on as it came
ClampDuty_none(v) == v

\* the byte reduced modulo 101
ClampDuty_modulo(v) == v % (MAX_PERCENT + 1)

\* min(command.xx, 100)
ClampDuty(v) == min(v, MAX_PERCENT)

\* led_xx.set_duty_cycle_percent(p).unwrap(), run in the state st of the
\* iteration: nothing after a panic; a percent above 100 trips the debug
\* assertion of embedded-hal when the build has them (dbg), and is written to
\* the channel otherwise
set_duty_cycle_percent(st, ch, p, dbg) ==
    IF ~st.ok THEN st
    ELSE IF p > 100 /\ dbg
    THEN [duty |-> st.duty, log |-> Append(st.log, Ev("set_duty", ch, p)), ok |-> FALSE]
    ELSE [duty |-> [st.duty EXCEPT ![ch] = p],
          log |-> Append(st.log, Ev("set_duty", ch, p)), ok |-> TRUE]

\* the Ok(()) arm followed by a status report to the host
ApplyCommand_acks(st, cmd, dbg) ==
    LET s1 == set_duty_cycle_percent(st, "ir", ClampDuty(cmd.ir), dbg)
        s2 == set_duty_cycle_percent(s1, "wh", ClampDuty(cmd.wh), dbg)
        s3 == set_duty_cycle_percent(s2, "uv", ClampDuty(cmd.uv), dbg)
    IN  [s3 EXCEPT !.log = Append(s3.log, Ev("write_report", "-", 0))]

\* the Ok(()) arm in the order of the fields: white, infrared, ultraviolet
ApplyCommand_field_order(st, cmd, dbg) ==
    LET s1 == set_duty_cycle_percent(st, "wh", ClampDuty(cmd.wh), dbg)
        s2 == set_duty_cycle_percent(s1, "ir", ClampDuty(cmd.ir), dbg)
        s3 == set_duty_cycle_percent(s2, "uv", ClampDuty(cmd.uv), dbg)
    IN  s3

\* the Ok(()) arm taking the ultraviolet duty from the reserved byte
ApplyCommand_reads_reserved(st, cmd, dbg) ==
    LET s1 == set_duty_cycle_percent(st, "ir", ClampDuty(cmd.ir), dbg)
        s2 == set_duty_cycle_percent(s1, "wh", ClampDuty(cmd.wh), dbg)
        s3 == set_duty_cycle_percent(s2, "uv", ClampDuty(cmd.reserved), dbg)
    IN  s3

\* the Ok(()) arm: infrared, then white, then ultraviolet
ApplyCommand(st, cmd, dbg) ==
    LET s1 == set_duty_cycle_percent(st, "ir", ClampDuty(cmd.ir), dbg)
        s2 == set_duty_cycle_percent(s1, "wh", ClampDuty(cmd.wh), dbg)
        s3 == set_duty_cycle_percent(s2, "uv", ClampDuty(cmd.uv), dbg)
    IN  s3

\* the WouldBlock arm applying the (default) command
HandleResult_wouldblock_applies(res, st, cmd, dbg) ==
    IF res.tag \in {"Ok", "WouldBlock"} THEN ApplyCommand(st, cmd, dbg) ELSE st

\* the error arms applying the (default) command
HandleResult_error_applies(res, st, cmd, dbg) ==
    IF res.tag = "WouldBlock" THEN st ELSE ApplyCommand(st, cmd, dbg)

\* the match on read_report's result
HandleResult(res, st, cmd, dbg) ==
    CASE res.tag = "Ok" -> ApplyCommand(st, cmd, dbg)
      [] res.tag = "WouldBlock" -> st
      [] res.tag = "SerializationError" -> st
      [] OTHER -> st

\* an error arm that ends the program
AfterMatch_error_halts(res, ok) ==
    IF ok /\ res.tag \in {"Ok", "WouldBlock"} THEN "poll" ELSE "halted"

\* a WouldBlock arm that goes straight back to the top of the loop
AfterMatch_skip_poll(res, ok) ==
    IF ~ok THEN "halted" ELSE IF res.tag = "WouldBlock" THEN "read" ELSE "poll"

\* where the loop goes after the match: the poll, unless an unwrap panicked
AfterMatch(res, ok) == IF ok THEN "poll" ELSE "halted"

\* one iteration up to the poll: a fresh default command, read_report, the match
LoopRead(fault, keep, dbg) ==
    /\ pc = "read"
    /\ LET r == read_report(DefaultCommand, slot, fault, keep)
           st == [duty |-> duty, log |-> <<Ev("read_report", "-", 0)>>, ok |-> TRUE]
           m == HandleResult(r.res, st, r.command, dbg)
       IN  /\ command' = r.command
           /\ result' = r.res
           /\ slot' = r.slot
           /\ duty' = m.duty
           /\ calls' = m.log
           /\ pc' = AfterMatch(r.res, m.ok)
           /\ arrived' = IF r.slot = slot
                         THEN [arrived EXCEPT !.taken = <<>>]
                         ELSE [pending |-> <<>>, taken |-> arrived.pending]
    /\ UNCHANGED <<fails, codec>>
    /\ UNCHANGED aside

\* if usb_dev.poll(&mut [&mut hid]) {} and back to the top of the loop
LoopPoll ==
    /\ pc = "poll"
    /\ calls' = Append(calls, Ev("poll", "-", 0))
    /\ pc' = "read"
    /\ fails' = IF result = OkResult THEN 0 ELSE min(fails + 1, MaxFails)
    /\ UNCHANGED <<duty, slot, command, result, arrived, codec>>
    /\ UNCHANGED aside

-----------------------------------------------------------------------------
(* The host *)

\* a report arrives in the inbound slot; the slot holds one report, the last
HostSend(r) ==
    /\ slot' = FullSlot(r)
    /\ UNCHANGED <<duty, pc, command, result, calls, fails, arrived, codec>>
    /\ UNCHANGED aside

\* a report of a burst arrives: as HostSend, and the run remembers the arrivals
HostBurst(r) ==
    /\ Len(arrived.pending) < MaxBurst
    /\ slot' = FullSlot(r)
    /\ arrived' = [arrived EXCEPT !.pending = Append(arrived.pending, r)]
    /\ UNCHANGED <<duty, pc, command, result, calls, fails, codec>>
    /\ UNCHANGED aside

\* the host takes the report waiting in the outbound slot
HostTake ==
    /\ hid.out.full
    /\ hid' = [hid EXCEPT !.out = EmptySlot]
    /\ UNCHANGED <<duty, slot, pc, command, result, calls, fails, arrived, codec, twin, clamp>>

-----------------------------------------------------------------------------
(* A clamp run: a byte is clamped, clamped again, and applied by the Ok arm *)

\* the command of a clamp run: the byte v as white duty, and two bytes a
\* third and two thirds of the range further on as infrared and ultraviolet
ClampCommand(v) == CustomHidCommand(v, (v + 85) % 256, (v + 170) % 256, 0)

ClampOnce ==
    /\ clamp.stage = "byte"
    /\ clamp' = [clamp EXCEPT !.stage = "once", !.once = ClampDuty(clamp.v)]
    /\ UNCHANGED <<duty, slot, pc, command, result, calls, fails, arrived, codec, hid, twin>>

ClampTwice ==
    /\ clamp.stage = "once"
    /\ clamp' = [clamp EXCEPT !.stage = "twice", !.twice = ClampDuty(clamp.once)]
    /\ UNCHANGED <<duty, slot, pc, command, result, calls, fails, arrived, codec, hid, twin>>

ClampApply(dbg) ==
    /\ clamp.stage = "twice"
    /\ LET m == ApplyCommand([duty |-> StartDuty, log |-> <<>>, ok |-> TRUE],
                             ClampCommand(clamp.v), dbg)
       IN  clamp' = [clamp EXCEPT !.stage = "applied", !.set = m.duty, !.ok = m.ok]
    /\ UNCHANGED <<duty, slot, pc, command, result, calls, fails, arrived, codec, hid, twin>>

-----------------------------------------------------------------------------
(* A twin run: two loops in step, fed the same reports but for byte 3 *)

\* the report r with x as its byte 3
WithReserved(r, x) == [i \in 1..Len(r) |-> IF i = 4 THEN x ELSE r[i]]

\* one iteration up to the poll, from the duties d and the inbound slot s
Iteration(d, s, fault, keep, dbg) ==
    LET r == read_report(DefaultCommand, s, fault, keep)
        st == [duty |-> d, log |-> <<Ev("read_report", "-", 0)>>, ok |-> TRUE]
        m == HandleResult(r.res, st, r.command, dbg)
    IN  [command |-> r.command, result |-> r.res, slot |-> r.slot, duty |-> m.duty,
         calls |-> m.log, pc |-> AfterMatch(r.res, m.ok)]

\* the same report arrives at both loops, with x as byte 3 at the second
TwinSend(r, x) ==
    /\ slot' = FullSlot(r)
    /\ twin' = [twin EXCEPT !.slot = FullSlot(WithReserved(r, x))]
    /\ UNCHANGED <<duty, pc, command, result, calls, fails, arrived, codec, hid, clamp>>

\* both loops read, with the same outcome of the transport, and match
TwinRead(fault, keep, dbg) ==
    /\ pc = "read" /\ twin.pc = "read"
    /\ LET a == Iteration(duty, slot, fault, keep, dbg)
           b == Iteration(twin.duty, twin.slot, fault, keep, dbg)
       IN  /\ command' = a.command
           /\ result' = a.result
           /\ slot' = a.slot
           /\ duty' = a.duty
           /\ calls' = a.calls
           /\ pc' = a.pc
           /\ twin' = [twin EXCEPT !.command = b.command, !.result = b.result,
                                   !.slot = b.slot, !.duty = b.duty,
                                   !.calls = b.calls, !.pc = b.pc]
    /\ UNCHANGED <<fails, arrived, codec, hid, clamp>>

\* both loops poll and go back to the top
TwinPoll ==
    /\ pc = "poll" /\ twin.pc = "poll"
    /\ calls' = Append(calls, Ev("poll", "-", 0))
    /\ pc' = "read"
    /\ fails' = IF result = OkResult THEN 0 ELSE min(fails + 1, MaxFails)
    /\ twin' = [twin EXCEPT !.calls = Append(twin.calls, Ev("poll", "-", 0)), !.pc = "read"]
    /\ UNCHANGED <<duty, slot, command, result, arrived, codec, hid, clamp>>

-----------------------------------------------------------------------------
(* A wrapper run: calls on the CustomHid in any order *)

\* the unit a call without a result returns
Unit == [tag |-> "Unit", inner |-> "-"]

Called(op, ret, fault) ==
    [hid EXCEPT !.op = op, !.n = 1 - hid.n, !.ret = ret, !.fault = fault]

CallWrite(d, fault) ==
    /\ LET w == write_report(d, hid.out, fault)
       IN  hid' = [Called("write_report", w.res, fault) EXCEPT
                      !.out = w.out, !.data = d, !.attempts = w.attempts]
    /\ UNCHANGED <<duty, slot, pc, command, result, calls, fails, arrived, codec, twin, clamp>>

CallRead(c, fault, keep) ==
    /\ LET r == read_report(c, slot, fault, keep)
       IN  /\ slot' = r.slot
           /\ hid' = [Called("read_report", r.res, fault) EXCEPT !.rec0 = c, !.rec = r.command]
    /\ UNCHANGED <<duty, pc, command, result, calls, fails, arrived, codec, twin, clamp>>

CallReset ==
    /\ LET h == reset(Adapter(slot, hid.out))
       IN  /\ slot' = h.in
           /\ hid' = [Called("reset", Unit, "None") EXCEPT !.out = h.out]
    /\ UNCHANGED <<duty, pc, command, result, calls, fails, arrived, codec, twin, clamp>>

CallTick ==
    /\ LET t == tick(Adapter(slot, hid.out))
       IN  /\ slot' = t.hid.in
           /\ hid' = [Called("tick", t.res, "None") EXCEPT !.out = t.hid.out]
    /\ UNCHANGED <<duty, pc, command, result, calls, fails, arrived, codec, twin, clamp>>

-----------------------------------------------------------------------------
(* A codec run: a record is packed, the bytes are unpacked *)

CodecPack ==
    /\ codec.stage = "record"
    /\ codec' = [codec EXCEPT !.stage = "packed", !.wire = pack(codec.rec)]
    /\ UNCHANGED <<duty, slot, pc, command, result, calls, fails, arrived>>
    /\ UNCHANGED aside

CodecUnpack ==
    /\ codec.stage = "packed"
    /\ LET u == unpack(codec.wire)
       IN  codec' = [codec EXCEPT !.stage = IF u.ok THEN "unpacked" ELSE "refused",
                                  !.back = IF u.ok THEN u.cmd ELSE codec.back]
    /\ UNCHANGED <<duty, slot, pc, command, result, calls, fails, arrived>>
    /\ UNCHANGED aside

-----------------------------------------------------------------------------

HidIdle ==
    [out |-> EmptySlot, op |-> "none", n |-> 0, ret |-> Unit, fault |-> "None",
     data |-> 0, attempts |-> 0, rec0 |-> DefaultCommand, rec |-> DefaultCommand]

TwinIdle ==
    [on |-> FALSE, duty |-> StartDuty, slot |-> EmptySlot, pc |-> "read",
     command |-> DefaultCommand, result |-> WouldBlock, calls |-> <<>>]

ClampIdle == [stage |-> "idle"]

CodecIdle == [stage |-> "idle", rec |-> DefaultCommand, wire |-> <<>>, back |-> DefaultCommand]

Init ==
    /\ duty = StartDuty
    /\ slot = EmptySlot
    /\ pc = "read"
    /\ command = DefaultCommand
    /\ result = WouldBlock
    /\ calls = <<>>
    /\ fails = 0
    /\ arrived = [pending |-> <<>>, taken |-> <<>>]
    /\ codec = CodecIdle
    /\ hid = HidIdle
    /\ twin = TwinIdle
    /\ clamp = ClampIdle

Next ==
    \/ \E r \in Reports : HostSend(r)
    \/ \E fault \in {"None"} \cup TransportFaults, keep \in BOOLEAN, dbg \in BOOLEAN :
          LoopRead(fault, keep, dbg)
    \/ LoopPoll

Spec == Init /\ [][Next]_vars

\* the loop is the only flow of control of the firmware and nothing in it
\* blocks: each of its steps is taken
FairNext ==
    \/ \E r \in FairReports : HostSend(r)
    \/ \E fault \in {"None"} \cup TransportFaults, keep \in BOOLEAN, dbg \in BOOLEAN :
          LoopRead(fault, keep, dbg)
    \/ LoopPoll

FairSpec ==
    /\ Init /\ [][FairNext]_vars
    /\ WF_vars(LoopPoll)
    /\ WF_vars(\E fault \in {"None"} \cup TransportFaults, keep \in BOOLEAN, dbg \in BOOLEAN :
                  LoopRead(fault, keep, dbg))

\* a run with bursts of reports between reads
BurstNext ==
    \/ \E r \in BurstReports : HostBurst(r)
    \/ \E fault \in {"None"} \cup TransportFaults, keep \in BOOLEAN, dbg \in BOOLEAN :
          LoopRead(fault, keep, dbg)
    \/ LoopPoll

BurstSpec == Init /\ [][BurstNext]_vars

\* a wrapper run: the host on both slots, and the four calls in any order
WrapperNext ==
    \/ \E r \in BurstReports : HostSend(r)
    \/ HostTake
    \/ \E d \in StatusData, fault \in {"None"} \cup TransportFaults : CallWrite(d, fault)
    \/ \E c \in CallerRecords, fault \in {"None"} \cup TransportFaults, keep \in BOOLEAN :
          CallRead(c, fault, keep)
    \/ CallReset
    \/ CallTick

WrapperSpec == Init /\ [][WrapperNext]_vars

\* a twin run: the second loop starts as the first
TwinInit ==
    /\ duty = StartDuty
    /\ slot = EmptySlot
    /\ pc = "read"
    /\ command = DefaultCommand
    /\ result = WouldBlock
    /\ calls = <<>>
    /\ fails = 0
    /\ arrived = [pending |-> <<>>, taken |-> <<>>]
    /\ codec = CodecIdle
    /\ hid = HidIdle
    /\ twin = [TwinIdle EXCEPT !.on = TRUE]
    /\ clamp = ClampIdle

TwinNext ==
    \/ \E r \in FairReports, x \in TwinReserved : TwinSend(r, x)
    \/ \E fault \in {"None"} \cup TransportFaults, keep \in BOOLEAN, dbg \in BOOLEAN :
          TwinRead(fault, keep, dbg)
    \/ TwinPoll

TwinSpec == TwinInit /\ [][TwinNext]_vars

\* a clamp run over every byte
ClampInit ==
    /\ duty = StartDuty
    /\ slot = EmptySlot
    /\ pc = "read"
    /\ command = DefaultCommand
    /\ result = WouldBlock
    /\ calls = <<>>
    /\ fails = 0
    /\ arrived = [pending |-> <<>>, taken |-> <<>>]
    /\ codec = CodecIdle
    /\ hid = HidIdle
    /\ twin = TwinIdle
    /\ \E v \in Byte :
          clamp = [stage |-> "byte", v |-> v, once |-> 0, twice |-> 0,
                   set |-> StartDuty, ok |-> TRUE]

ClampNext == ClampOnce \/ ClampTwice \/ (\E dbg \in BOOLEAN : ClampApply(dbg))

ClampSpec == ClampInit /\ [][ClampNext]_vars

\* a codec run over every record of CodecBytes
CodecInit ==
    /\ duty = StartDuty
    /\ slot = EmptySlot
    /\ pc = "read"
    /\ command = DefaultCommand
    /\ result = WouldBlock
    /\ calls = <<>>
    /\ fails = 0
    /\ arrived = [pending |-> <<>>, taken |-> <<>>]
    /\ \E a \in CodecBytes, b \in CodecBytes, c \in CodecBytes, r \in CodecBytes :
          codec = [stage |-> "record", rec |-> CustomHidCommand(a, b, c, r),
                   wire |-> <<>>, back |-> DefaultCommand]
    /\ hid = HidIdle
    /\ twin = TwinIdle
    /\ clamp = ClampIdle

CodecNext == CodecPack \/ CodecUnpack

CodecSpec == CodecInit /\ [][CodecNext]_vars

-----------------------------------------------------------------------------
(* Properties *)

\* what a byte becomes on its way to a channel
Percent(b) == IF b > 100 THEN 100 ELSE b

SetDutyCalls(log) == {i \in 1..Len(log) : log[i].op = "set_duty"}

\* the step is the read and match of an iteration
ReadStep == pc = "read" /\ pc' # "read"

\* the step is the poll that ends an iteration
PollStep == pc = "poll" /\ pc' = "read"

\* C1: every set-duty-cycle call of the loop is made with a value in 0..100,
\* and the duty of each of the three channels is always in 0..100
DutyInRange ==
    /\ \A ch \in Channels : duty[ch] \in 0..100
    /\ \A i \in SetDutyCalls(calls) : calls[i].val \in 0..100

\* an iteration applied a command whose three duty bytes are all above 100
DutyInRangeWitness ==
    /\ pc = "poll" /\ result = OkResult
    /\ command.wh > 100 /\ command.ir > 100 /\ command.uv > 100
    /\ duty = [ir |-> 100, wh |-> 100, uv |-> 100]

\* C2: an iteration whose read_report succeeds on a 4-byte report
\* [b0, b1, b2, b3] ends with white at min(b0, 100), infrared at min(b1, 100)
\* and ultraviolet at min(b2, 100)
CommandApplied ==
    [][ /\ (ReadStep /\ result' = OkResult /\ slot.full /\ Len(slot.data) = 4)
            => /\ pc' = "poll"
               /\ duty' = [wh |-> Percent(slot.data[1]), ir |-> Percent(slot.data[2]),
                           uv |-> Percent(slot.data[3])]
        /\ (PollStep /\ result = OkResult) => duty' = duty ]_vars

\* the saturating scenario: [255, 0, 200, 0] was read and applied
CommandAppliedWitness ==
    /\ pc = "poll" /\ result = OkResult
    /\ command = CustomHidCommand(255, 0, 200, 0)
    /\ duty = [wh |-> 100, ir |-> 0, uv |-> 100]

\* C3: an iteration whose read_report returns WouldBlock makes no
\* set-duty-cycle call and leaves the duty of all three channels as it was
WouldBlockTransparent ==
    [][ /\ (ReadStep /\ result' = WouldBlock)
            => (duty' = duty /\ SetDutyCalls(calls') = {} /\ pc' = "poll")
        /\ (PollStep /\ result = WouldBlock) => duty' = duty ]_vars

\* a WouldBlock iteration after a command had changed the channels
WouldBlockWitness ==
    /\ pc = "read" /\ result = WouldBlock /\ calls # <<>>
    /\ SetDutyCalls(calls) = {}
    /\ duty = [wh |-> 50, ir |-> 75, uv |-> 25]

\* C4: an iteration that finds a 3-byte or a 5-byte report in the inbound
\* slot changes the duty of no channel and goes on to the poll
MalformedIgnored ==
    [][ (ReadStep /\ slot.full /\ Len(slot.data) \in {3, 5})
            => (duty' = duty /\ pc' = "poll") ]_vars

\* C5: an iteration whose read_report returns SerializationError or any
\* other error that is not WouldBlock leaves the duty of all three channels
\* as it was
FailStatic ==
    [][ /\ (ReadStep /\ result'.tag \notin {"Ok", "WouldBlock"})
            => (duty' = duty /\ SetDutyCalls(calls') = {} /\ pc' = "poll")
        /\ (PollStep /\ result.tag \notin {"Ok", "WouldBlock"}) => duty' = duty ]_vars

\* an iteration that ended in a transport error after a command had changed
\* the channels
FailStaticWitness ==
    /\ pc = "read" /\ result.tag = "UsbError" /\ calls # <<>>
    /\ SetDutyCalls(calls) = {}
    /\ duty = [wh |-> 100, ir |-> 0, uv |-> 100]

ResultTags == {"Ok", "WouldBlock", "SerializationError", "UsbError"}

\* C6: the loop never halts: whatever read_report returned the iteration
\* reaches its poll and the next iteration starts, and a command read
\* successfully after failed or empty reads is applied to the channels
LoopNeverHalts ==
    /\ [](pc # "halted")
    /\ (pc = "read") ~> (pc = "poll")
    /\ \A t \in ResultTags : (pc = "poll" /\ result.tag = t) ~> (pc = "read")
    /\ [][ (ReadStep /\ result' = OkResult /\ fails > 0)
              => /\ pc' = "poll"
                 /\ duty' = [wh |-> Percent(command'.wh), ir |-> Percent(command'.ir),
                             uv |-> Percent(command'.uv)] ]_vars

\* a command applied right after two or more reads that were empty or failed
LoopNeverHaltsWitness ==
    /\ pc = "poll" /\ result = OkResult /\ fails >= 2
    /\ command = CustomHidCommand(50, 75, 25, 0)
    /\ duty = [wh |-> 50, ir |-> 75, uv |-> 25]

CountOf(log, op) == Cardinality({i \in 1..Len(log) : log[i].op = op})

\* C7: every iteration polls the USB device exactly once, as its last call,
\* after read_report and the handling of its outcome, whatever the outcome
PollOncePerIteration ==
    /\ pc = "poll" => (calls # <<>> /\ calls[1].op = "read_report" /\ CountOf(calls, "poll") = 0)
    /\ (pc = "read" /\ calls # <<>>)
          => /\ calls[1].op = "read_report"
             /\ calls[Len(calls)].op = "poll"
             /\ CountOf(calls, "poll") = 1
             /\ CountOf(calls, "read_report") = 1

\* a completed iteration whose read failed with a transport error
PollOnceWitness ==
    /\ pc = "read" /\ result.tag = "UsbError"
    /\ Len(calls) = 2 /\ calls[2].op = "poll"

\* C8: unpack(pack(r)) = r for every command record r, and pack lays out
\* white, infrared, ultraviolet, reserved as bytes 0, 1, 2, 3
CodecRoundTrip ==
    /\ codec.stage # "refused"
    /\ codec.stage \in {"packed", "unpacked"}
          => codec.wire = <<codec.rec.wh, codec.rec.ir, codec.rec.uv, codec.rec.reserved>>
    /\ codec.stage = "unpacked" => codec.back = codec.rec

\* a record of four different bytes went through pack and unpack
CodecRoundTripWitness ==
    /\ codec.stage = "unpacked"
    /\ codec.rec = CustomHidCommand(255, 1, 100, 101)
    /\ codec.wire = <<255, 1, 100, 101>>
    /\ codec.back = codec.rec

\* C9: a received buffer whose length is not 4 is refused with
\* SerializationError by the decoding of the read path, never cut or padded
\* into a command (reads the transport itself refused are left aside)
LengthStrict ==
    [][ (ReadStep /\ slot.full /\ Len(slot.data) # 4 /\ result'.tag # "UsbError")
            => (result' = SerializationError /\ command' = DefaultCommand) ]_vars

ByteAt(r, i) == IF i <= Len(r) THEN r[i] ELSE 0

\* C10 as stated: every iteration decodes and applies exactly one command,
\* the most recently buffered one
ExactlyOnePerIteration ==
    pc = "poll"
        => /\ result = OkResult
           /\ Cardinality(SetDutyCalls(calls)) = 3
           /\ arrived.taken # <<>>
           /\ command.wh = ByteAt(arrived.taken[Len(arrived.taken)], 1)

\* C10 amended: an iteration calls read_report once and decodes and applies
\* at most one command, none when read_report returns WouldBlock or an error;
\* when several reports arrived since the last read, the command decoded and
\* the three duties set come from the last of them alone
AtMostOnePerIteration ==
    pc = "poll"
        => /\ CountOf(calls, "read_report") = 1
           /\ IF result = OkResult
              THEN /\ arrived.taken # <<>>
                   /\ LET last == arrived.taken[Len(arrived.taken)]
                      IN  /\ command = CustomHidCommand(ByteAt(last, 1), ByteAt(last, 2),
                                                        ByteAt(last, 3), ByteAt(last, 4))
                          /\ calls = << Ev("read_report", "-", 0),
                                        Ev("set_duty", "ir", Percent(ByteAt(last, 2))),
                                        Ev("set_duty", "wh", Percent(ByteAt(last, 1))),
                                        Ev("set_duty", "uv", Percent(ByteAt(last, 3))) >>
                          /\ duty = [wh |-> Percent(ByteAt(last, 1)),
                                     ir |-> Percent(ByteAt(last, 2)),
                                     uv |-> Percent(ByteAt(last, 3))]
              ELSE SetDutyCalls(calls) = {}

\* two different commands arrived between two reads and the second one alone
\* was applied
AtMostOneWitness ==
    /\ pc = "poll" /\ result = OkResult
    /\ arrived.taken = <<SaturatingBytes, NominalBytes>>
    /\ duty = [wh |-> 50, ir |-> 75, uv |-> 25]

\* C11: the control loop never writes a status report: no iteration calls
\* write_report and nothing is ever put in the outbound report slot
StatusNeverWritten ==
    /\ CountOf(calls, "write_report") = 0
    /\ hid.op # "write_report"
    /\ ~hid.out.full

\* an iteration that applied a command and ended, with no status report
StatusNeverWrittenWitness ==
    /\ pc = "read" /\ result = OkResult /\ Len(calls) = 5
    /\ Cardinality(SetDutyCalls(calls)) = 3
    /\ calls[5].op = "poll"
    /\ ~hid.out.full

\* C12: an iteration whose read_report succeeds makes its three
\* set-duty-cycle calls in the order infrared, white, ultraviolet, each once,
\* and all three before the poll of that iteration
SetDutyOrder ==
    (calls # <<>> /\ result = OkResult)
        => /\ Len(calls) = IF pc = "read" THEN 5 ELSE 4
           /\ calls[1].op = "read_report"
           /\ calls[2].op = "set_duty" /\ calls[2].ch = "ir"
           /\ calls[3].op = "set_duty" /\ calls[3].ch = "wh"
           /\ calls[4].op = "set_duty" /\ calls[4].ch = "uv"
           /\ pc = "read" => calls[5].op = "poll"

\* the nominal command applied: infrared 75, then white 50, then ultraviolet
\* 25, then the poll
SetDutyOrderWitness ==
    /\ pc = "read" /\ result = OkResult
    /\ calls = << Ev("read_report", "-", 0), Ev("set_duty", "ir", 75),
                  Ev("set_duty", "wh", 50), Ev("set_duty", "uv", 25), Ev("poll", "-", 0) >>

\* C13: clamp(v) = v for v in 0..100 and clamp(v) = 100 for v in 101..255,
\* so clamp(clamp(v)) = clamp(v) for every byte, and the loop sets each of
\* the three channels to the clamp of its field
ClampLaw ==
    /\ clamp.stage \in {"once", "twice", "applied"}
          => clamp.once = (IF clamp.v \in 0..100 THEN clamp.v ELSE 100)
    /\ clamp.stage \in {"twice", "applied"} => clamp.twice = clamp.once
    /\ clamp.stage = "applied"
          => /\ clamp.ok
             /\ clamp.set = [wh |-> Percent(clamp.v),
                             ir |-> Percent((clamp.v + 85) % 256),
                             uv |-> Percent((clamp.v + 170) % 256)]

\* the first byte above the range, clamped twice and applied
ClampLawWitness ==
    /\ clamp.stage = "applied" /\ clamp.v = 101
    /\ clamp.once = 100 /\ clamp.twice = 100
    /\ clamp.set = [wh |-> 100, ir |-> 100, uv |-> 15]

\* C14: two runs that get the same read outcomes and the same reports but for
\* byte 3 of any report make the same calls with the same values and pass
\* through the same duties of the three channels
ReservedIgnored ==
    twin.on => /\ twin.pc = pc
               /\ twin.result = result
               /\ twin.calls = calls
               /\ twin.duty = duty

\* both loops applied the saturating command, the second with another byte 3
ReservedIgnoredWitness ==
    /\ twin.on /\ pc = "poll" /\ result = OkResult
    /\ command = CustomHidCommand(255, 0, 200, 0)
    /\ twin.command = CustomHidCommand(255, 0, 200, 255)
    /\ duty = [wh |-> 100, ir |-> 0, uv |-> 100]
    /\ twin.duty = duty

\* C15: read_report returns WouldBlock (or the transport's fault) when no
\* report has arrived since the last read, and then no channel is set; a read
\* that succeeds takes the waiting report out of the slot, so a report makes
\* the loop set the channels in at most one iteration
DeliveredAtMostOnce ==
    [][ /\ (ReadStep /\ arrived.pending = <<>>)
            => /\ result' = WouldBlock \/ (result'.tag = "UsbError" /\ result'.inner \in TransportFaults)
               /\ SetDutyCalls(calls') = {}
               /\ duty' = duty
        /\ (ReadStep /\ result' = OkResult)
            => /\ arrived.pending # <<>>
               /\ arrived'.pending = <<>>
               /\ ~slot'.full ]_vars

\* the iteration after the one that applied the nominal command: nothing had
\* arrived, read_report returned WouldBlock and the duties stayed
DeliveredOnceWitness ==
    /\ pc = "poll" /\ result = WouldBlock /\ fails = 0
    /\ calls = << Ev("read_report", "-", 0) >>
    /\ arrived.pending = <<>>
    /\ duty = [wh |-> 50, ir |-> 75, uv |-> 25]

AllOff == \A ch \in Channels : duty[ch] = 0

\* C16: on entering the loop, before any command has been read, each of the
\* three channels is off, at 0 %
StartsOff == calls = <<>> => AllOff

\* the step is a call on the CustomHid in a wrapper run
CallStep == hid'.n # hid.n

\* the value of four bytes, least significant first
LeValue(b) == b[1] + 256 * b[2] + 65536 * b[3] + 16777216 * b[4]

\* C17: write_report returns SerializationError without a write of the
\* transport when packing fails; otherwise it makes exactly one write of the
\* transport and returns its result, success or the transport's error
WriteFailsFast ==
    [][ (CallStep /\ hid'.op = "write_report")
            => /\ hid'.ret = SerializationError
                    => (hid'.attempts = 0 /\ hid'.out = hid.out)
               /\ hid'.ret # SerializationError
                    => /\ hid'.attempts = 1
                       /\ hid'.ret = (IF hid'.fault # "None"
                                      THEN [tag |-> "UsbError", inner |-> hid'.fault]
                                      ELSE IF hid.out.full
                                      THEN [tag |-> "WouldBlock", inner |-> "-"]
                                      ELSE [tag |-> "Ok", inner |-> "-"])
                       /\ hid'.ret.tag = "Ok"
                            => /\ hid'.out.full /\ Len(hid'.out.data) = 4
                               /\ LeValue(hid'.out.data) = hid'.data
                       /\ hid'.ret.tag # "Ok" => hid'.out = hid.out ]_vars

\* the status word 0x01020304 written: the transport holds its four bytes
WriteFailsFastWitness ==
    /\ hid.op = "write_report" /\ hid.ret = OkResult /\ hid.attempts = 1
    /\ hid.data = 16909060
    /\ hid.out = [full |-> TRUE, data |-> <<4, 3, 2, 1>>]

\* C18: reset changes nothing, tick returns success and changes nothing, in
\* every state that calls of reset, tick, read_report and write_report in any
\* order lead to
AdapterStateless ==
    [][ /\ (CallStep /\ hid'.op = "reset")
            => (slot' = slot /\ hid'.out = hid.out)
        /\ (CallStep /\ hid'.op = "tick")
            => (hid'.ret = OkResult /\ slot' = slot /\ hid'.out = hid.out) ]_vars

\* a tick that returned Ok with a report waiting in each slot, after a read
\* that had failed
AdapterStatelessWitness ==
    /\ hid.op = "tick" /\ hid.ret = OkResult
    /\ slot.full /\ hid.out.full
    /\ hid.rec0 = CustomHidCommand(9, 8, 7, 6)

\* C19: read_report leaves the caller's record as it was passed in unless it
\* returns Ok, and returns the transport's WouldBlock as WouldBlock and any
\* other error of the transport as that error
ReadAllOrNothing ==
    [][ (CallStep /\ hid'.op = "read_report")
            => LET terr == IF hid'.fault # "None" THEN hid'.fault
                           ELSE IF ~slot.full THEN "WouldBlock"
                           ELSE IF Len(slot.data) > 4 THEN "BufferOverflow"
                           ELSE "None"
               IN  /\ hid'.ret.tag # "Ok" => hid'.rec = hid'.rec0
                   /\ terr = "WouldBlock" => hid'.ret = [tag |-> "WouldBlock", inner |-> "-"]
                   /\ terr \notin {"None", "WouldBlock"}
                        => hid'.ret = [tag |-> "UsbError", inner |-> terr]
                   /\ terr = "None" => hid'.ret.tag \in {"Ok", "SerializationError"} ]_vars

\* a read refused by the transport left the caller's record (9, 8, 7, 6) alone
ReadAllOrNothingWitness ==
    /\ hid.op = "read_report"
    /\ hid.ret = [tag |-> "UsbError", inner |-> "BufferOverflow"]
    /\ hid.rec0 = CustomHidCommand(9, 8, 7, 6)
    /\ hid.rec = hid.rec0

====
